---- MODULE Spec2Model ----
(***************************************************************************)
(* PresenceCompiler.compilePresence (tools/classes/PresenceCompiler.ts):   *)
(* one call of the compilation orchestrator, single-unit and batch, with   *)
(* the file system, the installer process and the bundler as environment.  *)
(*                                                                         *)
(* JavaScript objects are records; the object spread {...a, ...b} is       *)
(* Merge(a, b); an absent property and the value undefined are told apart  *)
(* (a key that is absent from the caller's options / the value undefined). *)
(***************************************************************************)
EXTENDS Integers, Sequences, FiniteSets, TLC

\* ---------------------------------------------------------------- bounds
\* longest presence list handed to a batch call
MaxBatch == 2
\* longest diagnostic list one bundler run emits
MaxDiags == 2

\* the presences (units) that exist under websites/
Units == {"a", "b"}

\* ------------------------------------------------------- JavaScript values
undefined == [type |-> "undefined"]

EmptyObject == [k \in {} |-> undefined]

\* object spread: {...a, ...b}
Merge(a, b) ==
  [k \in (DOMAIN a) \cup (DOMAIN b) |-> IF k \in DOMAIN b THEN b[k] ELSE a[k]]

\* property read: o.k (undefined when the property is absent)
Get(o, k) == IF k \in DOMAIN o THEN o[k] ELSE undefined

\* o.k ??= v (callers leave a property out rather than pass undefined)
NullishAssign(o, k, v) ==
  IF k \notin DOMAIN o THEN Merge(o, [x \in {k} |-> v]) ELSE o

\* ------------------------------------------------------------------ state
VARIABLES
  fsTsconfig,     \* units whose directory holds tsconfig.json
  fsPackageJson,  \* units whose directory holds package.json
  fsIframe,       \* units whose directory holds iframe.ts
  ctorWebpack,    \* this.options?.webpack, the constructor's bundler overrides
  pc,             \* position of the compilePresence call
  mode,           \* "none" | "single" | "batch" (Array.isArray(presence))
  presence,       \* the call's first argument: a unit or a list of units
  options,        \* the call's options object (mutated by the call)
  webpackConfig,  \* the configuration object built at the top of the call
  idx,            \* position in the batch list of the unit being processed
  errors,         \* the batch accumulator
  job,            \* the settled value of the bundler promise
  pending,        \* the bundler run in flight (its configuration) or undefined
  outcome,        \* how the call ended: returned value or thrown error
  infos,          \* actions.info messages, in order
  trace,          \* the call's arguments as passed, then its side effects on the
                  \* file system, the installer and the bundler, in order
  prev            \* what the caller kept of an earlier call on the same compiler

vars == <<fsTsconfig, fsPackageJson, fsIframe, ctorWebpack, pc, mode, presence,
          options, webpackConfig, idx, errors, job, pending, outcome, infos,
          trace, prev>>

\* what no step of a running call changes
fsVars == <<fsPackageJson, fsIframe, ctorWebpack, prev>>

\* ---------------------------------------------------------------- inputs
\* options objects a caller passes: none; an output directory with
\* transpileOnly; emit switched off
OptionInputs ==
  { EmptyObject,
    [output |-> [abs |-> <<"out">>], transpileOnly |-> TRUE],
    [emit |-> FALSE] }

\* bundler overrides a constructor is given: none, or an entry and an output
CtorWebpackInputs ==
  { EmptyObject,
    [entry |-> [main |-> "./main.ts"],
     output |-> [path |-> [abs |-> <<"dist">>]]] }

\* the unit directories as a call finds them: which hold a (stale)
\* tsconfig.json, a package.json, an iframe.ts
Layouts ==
  { [tsconfig |-> {}, packageJson |-> {}, iframe |-> {}],
    [tsconfig |-> {"b"}, packageJson |-> {"a"}, iframe |-> {"a"}] }

\* lists of units of length at most n
RECURSIVE UnitLists(_)
UnitLists(n) ==
  IF n = 0 THEN {<<>>}
  ELSE LET shorter == UnitLists(n - 1)
       IN shorter \cup {Append(l, u) : l \in {s \in shorter : Len(s) = n - 1}, u \in Units}

DiagNames == {"ModuleBuildError", "TSError"}

RECURSIVE NameLists(_)
NameLists(n) ==
  IF n = 0 THEN {<<>>}
  ELSE LET shorter == NameLists(n - 1)
       IN shorter \cup {Append(l, d) : l \in {s \in shorter : Len(s) = n - 1}, d \in DiagNames}

\* the diagnostics the bundler emits for unit p: one per name, in emission order
Diagnostics(p, names) ==
  [k \in 1..Len(names) |-> [name |-> names[k], file |-> p, line |-> k]]

\* exit codes of the installer process
ExitCodes == {0, 1}

InstallError == [name |-> "Error", message |-> "Command failed: npm install"]
BundlerError == [name |-> "Error", message |-> "webpack invocation failed"]

\* the exported tsconfig constant is the content written; only presence of the
\* file matters here.

\* ------------------------------------------------------------ pure helpers
getPresenceFolder(p) == [abs |-> <<"websites", p>>]

\* lines 50-100: the configuration object, from the options as they are at
\* that point and the constructor's overrides spread last
BaseWebpackConfig(opts, ctor) ==
  Merge([mode |-> "production",
         devtool |-> "inline-source-map",
         output |-> IF opts.emit
                      THEN [iife |-> FALSE,
                            path |-> Get(opts, "output"),
                            filename |-> "[name].js"]
                      ELSE undefined,
         module |-> [transpileOnly |-> opts.transpileOnly]],
        ctor)

\* the entry object built without the existsSync test
Entry_AlwaysIframe(p, iframes) ==
  Merge([presence |-> "./presence.ts"], [iframe |-> "./iframe.ts"])

\* lines 127-132 / 182-187: the entry object
Entry(p, iframes) ==
  Merge([presence |-> "./presence.ts"],
        IF p \in iframes THEN [iframe |-> "./iframe.ts"] ELSE EmptyObject)

\* the batch configuration leaving the output of webpackConfig in place
BatchInvokeConfig_OutputFromOptions(cfg, opts, p, iframes) ==
  Merge(cfg,
        [context |-> getPresenceFolder(p),
         entry |-> Entry(p, iframes)])

\* lines 117-133: the configuration handed to the bundler in batch mode
BatchInvokeConfig(cfg, opts, p, iframes) ==
  Merge(cfg,
        [context |-> getPresenceFolder(p),
         output |-> IF opts.emit
                      THEN [iife |-> FALSE,
                            path |-> getPresenceFolder(p),
                            filename |-> "[name].js"]
                      ELSE undefined,
         entry |-> Entry(p, iframes)])

\* lines 179-188: the configuration handed to the bundler in single mode
SingleInvokeConfig(cfg, p, iframes) ==
  Merge(cfg,
        [context |-> getPresenceFolder(p),
         entry |-> Entry(p, iframes)])

\* a filter that lets every diagnostic through
FilterErrors_KeepWrappers(es) == es

\* lines 147 / 206: errors.filter(e => e.name !== "ModuleBuildError")
FilterErrors(es) == SelectSeq(es, LAMBDA e : e.name # "ModuleBuildError")

\* installPresenceDependencies without the early return of line 214
installPresenceDependencies_NoManifestCheck(p, manifests, exit) ==
  [ran |-> TRUE, threw |-> exit # 0]

\* installPresenceDependencies swallowing the installer's failure
installPresenceDependencies_IgnoreExit(p, manifests, exit) ==
  IF p \notin manifests
    THEN [ran |-> FALSE, threw |-> FALSE]
    ELSE [ran |-> TRUE, threw |-> FALSE]

\* lines 211-221: installPresenceDependencies, against an installer process
\* that exits with the given code
installPresenceDependencies(p, manifests, exit) ==
  IF p \notin manifests
    THEN [ran |-> FALSE, threw |-> FALSE]
    ELSE [ran |-> TRUE, threw |-> exit # 0]

\* lines 143-145: the cleanup pass over the list, from position k on
RECURSIVE CleanupFiles(_, _, _)
CleanupFiles(list, k, files) ==
  IF k > Len(list) THEN files
  ELSE CleanupFiles(list, k + 1,
                    IF list[k] \in files THEN files \ {list[k]} ELSE files)

\* the cleanup pass calling rmSync without the existsSync test
RECURSIVE CleanupEvents_NoExistsCheck(_, _, _)
CleanupEvents_NoExistsCheck(list, k, files) ==
  IF k > Len(list) THEN <<>>
  ELSE <<[op |-> "delete", unit |-> list[k], idx |-> k]>>
       \o CleanupEvents_NoExistsCheck(list, k + 1, files \ {list[k]})

RECURSIVE CleanupEvents(_, _, _)
CleanupEvents(list, k, files) ==
  IF k > Len(list) THEN <<>>
  ELSE IF list[k] \in files
         THEN <<[op |-> "delete", unit |-> list[k], idx |-> k]>>
              \o CleanupEvents(list, k + 1, files \ {list[k]})
         ELSE CleanupEvents(list, k + 1, files)

SuccessMessage(opts) ==
  IF ~opts.transpileOnly THEN "success-compiled" ELSE "success-transpiled"

NoOutcome == [kind |-> "none"]
NoPrev == [kind |-> "none"]
Returned(v) == [kind |-> "returned", value |-> v]
Thrown(e) == [kind |-> "thrown", error |-> e]

\* ------------------------------------------------------------------- Init
Init ==
  /\ \E l \in Layouts :
       /\ fsTsconfig = l.tsconfig
       /\ fsPackageJson = l.packageJson
       /\ fsIframe = l.iframe
  /\ ctorWebpack \in CtorWebpackInputs
  /\ prev = NoPrev
  /\ pc = "idle"
  /\ mode = "none"
  /\ presence = <<>>
  /\ options = EmptyObject
  /\ webpackConfig = undefined
  /\ idx = 0
  /\ errors = <<>>
  /\ job = undefined
  /\ pending = undefined
  /\ outcome = NoOutcome
  /\ infos = <<>>
  /\ trace = <<>>

\* lines 47-48: the defaults of emit and transpileOnly
NormalizeOptions(o) ==
  NullishAssign(NullishAssign(o, "emit", TRUE), "transpileOnly", FALSE)

\* ---------------------------------------------------------------- actions
\* lines 39-105: compilePresence called with a list
CallBatch ==
  /\ pc = "idle"
  /\ \E list \in UnitLists(MaxBatch), o \in OptionInputs :
       LET opts == NormalizeOptions(o) IN
       /\ presence' = list
       /\ options' = opts
       /\ trace' = Append(trace, [op |-> "call", idx |-> 0, options |-> o,
                                   tsconfig |-> fsTsconfig])
       /\ webpackConfig' = BaseWebpackConfig(opts, ctorWebpack)
  /\ mode' = "batch"
  /\ errors' = <<>>
  /\ infos' = Append(infos, "compiling-batch")
  /\ idx' = 1
  /\ pc' = "b_loop"
  /\ UNCHANGED <<fsTsconfig, fsVars, job, pending, outcome>>

\* the loop going on to the installer without writing tsconfig.json
BatchWrite_Omitted ==
  /\ pc = "b_loop"
  /\ idx <= Len(presence)
  /\ pc' = "b_install"
  /\ UNCHANGED <<fsTsconfig, fsVars, mode, presence, options, webpackConfig,
                 idx, errors, job, pending, outcome, infos, trace>>

\* lines 106-109: the loop takes the next unit and writes its tsconfig.json
BatchWrite ==
  /\ pc = "b_loop"
  /\ idx <= Len(presence)
  /\ fsTsconfig' = fsTsconfig \cup {presence[idx]}
  /\ trace' = Append(trace, [op |-> "write", unit |-> presence[idx], idx |-> idx])
  /\ pc' = "b_install"
  /\ UNCHANGED <<fsVars, mode, presence, options, webpackConfig, idx, errors,
                 job, pending, outcome, infos>>

\* line 110: await this.installPresenceDependencies(p)
BatchInstall ==
  /\ pc = "b_install"
  /\ \E exit \in ExitCodes :
       LET p == presence[idx]
           r == installPresenceDependencies(p, fsPackageJson, exit)
       IN /\ infos' = IF r.ran THEN Append(infos, "installing") ELSE infos
          /\ trace' = IF r.ran
                        THEN Append(trace, [op |-> "install", unit |-> p,
                                            idx |-> idx, exit |-> exit])
                        ELSE trace
          /\ IF r.threw
               THEN /\ pc' = "done"
                    /\ outcome' = Thrown(InstallError)
               ELSE /\ pc' = "b_invoke"
                    /\ UNCHANGED outcome
  /\ UNCHANGED <<fsTsconfig, fsVars, mode, presence, options, webpackConfig,
                 idx, errors, job, pending>>

\* the bundler started without awaiting its promise: the loop goes on
BatchInvoke_NoAwait ==
  /\ pc = "b_invoke"
  /\ LET p == presence[idx]
         cfg == BatchInvokeConfig(webpackConfig, options, p, fsIframe)
     IN /\ pending' = cfg
        /\ trace' = Append(trace, [op |-> "invoke", unit |-> p, idx |-> idx,
                                   config |-> cfg])
  /\ idx' = idx + 1
  /\ pc' = "b_loop"
  /\ UNCHANGED <<fsTsconfig, fsVars, mode, presence, options, webpackConfig,
                 errors, job, outcome, infos>>

\* lines 112-136: webpack.webpack(config, callback)
BatchInvoke ==
  /\ pc = "b_invoke"
  /\ LET p == presence[idx]
         cfg == BatchInvokeConfig(webpackConfig, options, p, fsIframe)
     IN /\ pending' = cfg
        /\ trace' = Append(trace, [op |-> "invoke", unit |-> p, idx |-> idx,
                                   config |-> cfg])
  /\ pc' = "b_await"
  /\ UNCHANGED <<fsTsconfig, fsVars, mode, presence, options, webpackConfig,
                 idx, errors, job, outcome, infos>>

\* lines 134 / 189: the bundler's completion callback settles the promise with
\* either an invocation error or the stats of the compilation
BundlerCallback ==
  /\ pc \in {"b_await", "s_await"}
  /\ pending # undefined
  /\ LET p == Get(pending, "context").abs[2] IN
     \E fatal \in BOOLEAN, names \in NameLists(MaxDiags) :
       /\ fatal => names = <<>>
       /\ job' = IF fatal
                   THEN [error |-> BundlerError, stats |-> undefined]
                   ELSE [error |-> undefined,
                         stats |-> [compilation |-> [errors |-> Diagnostics(p, names)]]]
       /\ trace' = Append(trace, [op |-> "callback", unit |-> p, idx |-> idx,
                                  job |-> job'])
  /\ pending' = undefined
  /\ pc' = IF pc = "b_await" THEN "b_after" ELSE "s_delete"
  /\ UNCHANGED <<fsTsconfig, fsVars, mode, presence, options, webpackConfig,
                 idx, errors, outcome, infos>>

\* the loop body without the rethrow of line 138
BatchAfterJob_IgnoreError ==
  /\ pc = "b_after"
  /\ errors' = errors \o (IF job.stats # undefined
                           THEN job.stats.compilation.errors
                           ELSE <<>>)
  /\ idx' = idx + 1
  /\ pc' = "b_loop"
  /\ UNCHANGED <<fsTsconfig, fsVars, mode, presence, options, webpackConfig,
                 job, pending, outcome, infos, trace>>

\* the loop body running the cleanup pass over the whole list before it
\* rethrows the invocation error
BatchAfterJob_CleanupAllOnThrow ==
  /\ pc = "b_after"
  /\ IF job.error # undefined
       THEN /\ fsTsconfig' = CleanupFiles(presence, 1, fsTsconfig)
            /\ trace' = trace \o CleanupEvents(presence, 1, fsTsconfig)
            /\ pc' = "done"
            /\ outcome' = Thrown(job.error)
            /\ UNCHANGED <<errors, idx>>
       ELSE /\ errors' = errors \o job.stats.compilation.errors
            /\ idx' = idx + 1
            /\ pc' = "b_loop"
            /\ UNCHANGED <<outcome, fsTsconfig, trace>>
  /\ UNCHANGED <<fsVars, mode, presence, options, webpackConfig,
                 job, pending, infos>>

\* the loop body deleting the unit's tsconfig.json as soon as it is built
BatchAfterJob_DeleteNow ==
  /\ pc = "b_after"
  /\ fsTsconfig' = fsTsconfig \ {presence[idx]}
  /\ trace' = Append(trace, [op |-> "delete", unit |-> presence[idx], idx |-> idx])
  /\ IF job.error # undefined
       THEN /\ pc' = "done"
            /\ outcome' = Thrown(job.error)
            /\ UNCHANGED <<errors, idx>>
       ELSE /\ errors' = errors \o job.stats.compilation.errors
            /\ idx' = idx + 1
            /\ pc' = "b_loop"
            /\ UNCHANGED outcome
  /\ UNCHANGED <<fsVars, mode, presence, options, webpackConfig,
                 job, pending, infos>>

\* the loop body treating a non-empty diagnostic list as a failure
BatchAfterJob_ThrowOnDiagnostics ==
  /\ pc = "b_after"
  /\ IF job.error # undefined
       THEN /\ pc' = "done"
            /\ outcome' = Thrown(job.error)
            /\ UNCHANGED <<errors, idx>>
       ELSE IF Len(job.stats.compilation.errors) > 0
         THEN /\ pc' = "done"
              /\ outcome' = Thrown(job.stats.compilation.errors[1])
              /\ UNCHANGED <<errors, idx>>
         ELSE /\ errors' = errors \o job.stats.compilation.errors
              /\ idx' = idx + 1
              /\ pc' = "b_loop"
              /\ UNCHANGED outcome
  /\ UNCHANGED <<fsTsconfig, fsVars, mode, presence, options, webpackConfig,
                 job, pending, infos, trace>>

\* lines 138-140: rethrow the invocation error or accumulate the diagnostics
BatchAfterJob ==
  /\ pc = "b_after"
  /\ IF job.error # undefined
       THEN /\ pc' = "done"
            /\ outcome' = Thrown(job.error)
            /\ UNCHANGED <<errors, idx>>
       ELSE /\ errors' = errors \o (IF job.stats # undefined
                                      THEN job.stats.compilation.errors
                                      ELSE <<>>)
            /\ idx' = idx + 1
            /\ pc' = "b_loop"
            /\ UNCHANGED outcome
  /\ UNCHANGED <<fsTsconfig, fsVars, mode, presence, options, webpackConfig,
                 job, pending, infos, trace>>

\* lines 143-145: after the loop, delete every tsconfig.json that exists
BatchCleanup ==
  /\ pc = "b_loop"
  /\ idx > Len(presence)
  /\ fsTsconfig' = CleanupFiles(presence, 1, fsTsconfig)
  /\ trace' = trace \o CleanupEvents(presence, 1, fsTsconfig)
  /\ pc' = "b_finish"
  /\ UNCHANGED <<fsVars, mode, presence, options, webpackConfig, idx, errors,
                 job, pending, outcome, infos>>

\* the batch result with the success test made on the unfiltered list
BatchFinish_TestBeforeFilter ==
  /\ pc = "b_finish"
  /\ LET filtered == FilterErrors(errors) IN
       /\ errors' = filtered
       /\ infos' = IF Len(errors) = 0
                     THEN Append(infos, SuccessMessage(options))
                     ELSE infos
       /\ outcome' = Returned(filtered)
  /\ pc' = "done"
  /\ UNCHANGED <<fsTsconfig, fsVars, mode, presence, options, webpackConfig,
                 idx, job, pending, trace>>

\* lines 147-162: filter, report success, return
BatchFinish ==
  /\ pc = "b_finish"
  /\ LET filtered == FilterErrors(errors) IN
       /\ errors' = filtered
       /\ infos' = IF Len(filtered) = 0
                     THEN Append(infos, SuccessMessage(options))
                     ELSE infos
       /\ outcome' = Returned(filtered)
  /\ pc' = "done"
  /\ UNCHANGED <<fsTsconfig, fsVars, mode, presence, options, webpackConfig,
                 idx, job, pending, trace>>

\* lines 39-100, 165-167: compilePresence called with one unit
CallSingle ==
  /\ pc = "idle"
  /\ \E p \in Units, o \in OptionInputs :
       LET opts == NormalizeOptions(o) IN
       /\ presence' = p
       /\ trace' = Append(trace, [op |-> "call", idx |-> 0, options |-> o,
                                   tsconfig |-> fsTsconfig])
       /\ webpackConfig' = BaseWebpackConfig(opts, ctorWebpack)
       /\ options' = IF Get(opts, "output") = undefined
                       THEN Merge(opts, [output |-> getPresenceFolder(p)])
                       ELSE opts
  /\ mode' = "single"
  /\ idx' = 1
  /\ pc' = "s_write"
  /\ UNCHANGED <<fsTsconfig, fsVars, errors, job, pending, outcome, infos>>

\* line 169: write the unit's tsconfig.json
SingleWrite ==
  /\ pc = "s_write"
  /\ fsTsconfig' = fsTsconfig \cup {presence}
  /\ trace' = Append(trace, [op |-> "write", unit |-> presence, idx |-> 1])
  /\ pc' = "s_install"
  /\ UNCHANGED <<fsVars, mode, presence, options, webpackConfig, idx, errors,
                 job, pending, outcome, infos>>

\* line 171: await this.installPresenceDependencies(presence)
SingleInstall ==
  /\ pc = "s_install"
  /\ \E exit \in ExitCodes :
       LET r == installPresenceDependencies(presence, fsPackageJson, exit)
       IN /\ infos' = IF r.ran THEN Append(infos, "installing") ELSE infos
          /\ trace' = IF r.ran
                        THEN Append(trace, [op |-> "install", unit |-> presence,
                                            idx |-> 1, exit |-> exit])
                        ELSE trace
          /\ IF r.threw
               THEN /\ pc' = "done"
                    /\ outcome' = Thrown(InstallError)
               ELSE /\ pc' = "s_invoke"
                    /\ UNCHANGED outcome
  /\ UNCHANGED <<fsTsconfig, fsVars, mode, presence, options, webpackConfig,
                 idx, errors, job, pending>>

\* lines 173-191: report, then webpack.webpack(config, callback)
SingleInvoke ==
  /\ pc = "s_invoke"
  /\ LET cfg == SingleInvokeConfig(webpackConfig, presence, fsIframe)
     IN /\ pending' = cfg
        /\ trace' = Append(trace, [op |-> "invoke", unit |-> presence, idx |-> 1,
                                   config |-> cfg])
  /\ infos' = Append(infos, "compiling-single")
  /\ pc' = "s_await"
  /\ UNCHANGED <<fsTsconfig, fsVars, mode, presence, options, webpackConfig,
                 idx, errors, job, outcome>>

\* the single-unit path rethrowing the invocation error before it deletes
SingleDelete_ThrowFirst ==
  /\ pc = "s_delete"
  /\ IF job.error # undefined
       THEN /\ pc' = "done"
            /\ outcome' = Thrown(job.error)
            /\ UNCHANGED <<fsTsconfig, trace>>
       ELSE /\ fsTsconfig' = CleanupFiles(<<presence>>, 1, fsTsconfig)
            /\ trace' = trace \o CleanupEvents(<<presence>>, 1, fsTsconfig)
            /\ pc' = "s_finish"
            /\ UNCHANGED outcome
  /\ UNCHANGED <<fsVars, mode, presence, options, webpackConfig, idx, errors,
                 job, pending, infos>>

\* the single-unit path without its deletion
SingleDelete_Skip ==
  /\ pc = "s_delete"
  /\ pc' = "s_finish"
  /\ UNCHANGED <<fsTsconfig, fsVars, mode, presence, options, webpackConfig,
                 idx, errors, job, pending, outcome, infos, trace>>

\* lines 193-194: delete the unit's tsconfig.json if it exists
SingleDelete ==
  /\ pc = "s_delete"
  /\ fsTsconfig' = CleanupFiles(<<presence>>, 1, fsTsconfig)
  /\ trace' = trace \o CleanupEvents(<<presence>>, 1, fsTsconfig)
  /\ pc' = "s_finish"
  /\ UNCHANGED <<fsVars, mode, presence, options, webpackConfig, idx, errors,
                 job, pending, outcome, infos>>

\* lines 196-208: rethrow, report success, filter, return
SingleFinish ==
  /\ pc = "s_finish"
  /\ IF job.error # undefined
       THEN /\ outcome' = Thrown(job.error)
            /\ UNCHANGED <<infos, errors>>
       ELSE LET hasStats == job.stats # undefined
                \* !job.stats?.compilation.errors.length
                noLength == IF hasStats
                              THEN Len(job.stats.compilation.errors) = 0
                              ELSE TRUE
            IN /\ infos' = IF noLength
                             THEN Append(infos, SuccessMessage(options))
                             ELSE infos
               \* errors?.filter(...) and errors || []
               /\ errors' = IF hasStats
                              THEN FilterErrors(job.stats.compilation.errors)
                              ELSE <<>>
               /\ outcome' = Returned(errors')
  /\ pc' = "done"
  /\ UNCHANGED <<fsTsconfig, fsVars, mode, presence, options, webpackConfig,
                 idx, job, pending, trace>>

Next ==
  \/ CallBatch
  \/ BatchWrite
  \/ BatchInstall
  \/ BatchInvoke
  \/ BundlerCallback
  \/ BatchAfterJob
  \/ BatchCleanup
  \/ BatchFinish
  \/ CallSingle
  \/ SingleWrite
  \/ SingleInstall
  \/ SingleInvoke
  \/ SingleDelete
  \/ SingleFinish

Spec == Init /\ [][Next]_vars

\* ------------------------------------------- the same unit compiled twice
\* lines 39-100, 165-167: a caller whose single-unit call returned calls
\* compilePresence again for the same unit with identical options: an equal
\* fresh options object, or the very object the first call was given (which
\* that call has filled in, lines 47-48 and 167)
CallAgain ==
  /\ pc = "done"
  /\ mode = "single"
  /\ outcome.kind = "returned"
  /\ prev = NoPrev
  /\ prev' = [kind |-> "call", outcome |-> outcome, trace |-> trace,
              infos |-> infos, tsconfig |-> fsTsconfig]
  /\ \E o \in {trace[1].options, options} :
       LET opts == NormalizeOptions(o) IN
       /\ trace' = <<[op |-> "call", idx |-> 0, options |-> o,
                      tsconfig |-> fsTsconfig]>>
       /\ webpackConfig' = BaseWebpackConfig(opts, ctorWebpack)
       /\ options' = IF Get(opts, "output") = undefined
                       THEN Merge(opts, [output |-> getPresenceFolder(presence)])
                       ELSE opts
  /\ infos' = <<>>
  /\ errors' = <<>>
  /\ job' = undefined
  /\ outcome' = NoOutcome
  /\ pc' = "s_write"
  /\ UNCHANGED <<fsTsconfig, fsPackageJson, fsIframe, ctorWebpack, mode,
                 presence, idx, pending>>

\* the bundler run of the earlier call, as the caller's record has it
PrevEvent(op) ==
  prev.trace[CHOOSE n \in 1..Len(prev.trace) : prev.trace[n].op = op]

\* lines 189: the callback of a bundler that is a deterministic function of
\* the unit's sources and the entry object: run again on the same context and
\* entry, it settles the promise with the same value
BundlerCallbackDeterministic ==
  /\ BundlerCallback
  /\ (/\ prev # NoPrev
      /\ pending.context = PrevEvent("invoke").config.context
      /\ pending.entry = PrevEvent("invoke").config.entry)
     => job' = PrevEvent("callback").job

NextTwice ==
  \/ CallSingle
  \/ SingleWrite
  \/ SingleInstall
  \/ SingleInvoke
  \/ BundlerCallbackDeterministic
  \/ SingleDelete
  \/ SingleFinish
  \/ CallAgain

SpecTwice == Init /\ [][NextTwice]_vars

\* ------------------------------------------------------ derived quantities
TraceIdx == 1..Len(trace)

IsSuccess(m) == m \in {"success-compiled", "success-transpiled"}

\* number of success messages reported so far
SuccessCount == Cardinality({k \in 1..Len(infos) : IsSuccess(infos[k])})

\* the options object as the caller passed it
OptionsArg == trace[1].options

\* the call has ended
Done == pc = "done"
ReturnedNow == Done /\ outcome.kind = "returned"
ThrownNow == Done /\ outcome.kind = "thrown"

\* the bundler's callback for list position k delivered an invocation error
FatalCallback(n) ==
  /\ trace[n].op = "callback"
  /\ trace[n].job.error # undefined

\* the diagnostics the bundler's callback delivered for list position k
RawOf(k) ==
  LET n == CHOOSE n \in TraceIdx : trace[n].op = "callback" /\ trace[n].idx = k
  IN trace[n].job.stats.compilation.errors

RECURSIVE WithoutWrappers(_)
WithoutWrappers(ds) ==
  IF ds = <<>> THEN <<>>
  ELSE (IF Head(ds).name = "ModuleBuildError" THEN <<>> ELSE <<Head(ds)>>)
       \o WithoutWrappers(Tail(ds))

RECURSIVE ExpectedFrom(_)
ExpectedFrom(k) ==
  IF k > Len(presence) THEN <<>>
  ELSE WithoutWrappers(RawOf(k)) \o ExpectedFrom(k + 1)

\* ------------------------------------------------------------------ claims

\* C1: a single-unit call leaves no tsconfig.json in the unit's directory when
\* control returns to the caller, on every exit path (return, bundler
\* invocation error thrown, installer failure thrown).
C1_SingleConfigAbsentOnExit ==
  (Done /\ mode = "single") => presence \notin fsTsconfig

\* C2: a batch call leaves no tsconfig.json it wrote behind when control
\* returns to the caller, on every exit path; the configs written for units
\* 1..k are removed when the batch aborts at unit k.
C2_BatchConfigsAbsentOnExit ==
  (Done /\ mode = "batch") =>
    \A n \in TraceIdx :
      trace[n].op = "write" => trace[n].unit \notin fsTsconfig

\* C3: a single-unit call that returns reports success if and only if the
\* returned (wrapper-filtered) list is empty.
C3_SingleSuccessIffReturnedEmpty ==
  (ReturnedNow /\ mode = "single") =>
    (SuccessCount >= 1 <=> Len(outcome.value) = 0)

\* C4: once the bundler's callback has delivered an invocation error for unit
\* k of a batch, no unit j > k is written, provisioned or bundled, no success
\* message is reported, and the call ends by throwing that error, never by
\* returning a list.
C4_FatalErrorAbortsBatch ==
  mode = "batch" =>
    \A n \in TraceIdx :
      FatalCallback(n) =>
        /\ \A m \in TraceIdx : trace[m].idx <= trace[n].idx
        /\ n = Len(trace)
        /\ SuccessCount = 0
        /\ pc \in {"b_after", "done"}
        /\ Done => outcome = Thrown(trace[n].job.error)

C4_Witness ==
  /\ ThrownNow
  /\ mode = "batch"
  /\ outcome.error = BundlerError
  /\ idx < Len(presence)
  /\ FatalCallback(Len(trace))

\* C5: the list a batch call returns is the concatenation, in list order, of
\* each unit's diagnostics in emission order with the ModuleBuildError
\* wrappers removed and every other diagnostic kept exactly once.
C5_BatchResultIsOrderedFilteredConcat ==
  (ReturnedNow /\ mode = "batch") => outcome.value = ExpectedFrom(1)

C5_Witness ==
  /\ ReturnedNow
  /\ mode = "batch"
  /\ Len(presence) = 2
  /\ presence[1] # presence[2]
  /\ Len(RawOf(1)) = 2
  /\ Len(RawOf(2)) = 2
  /\ Len(outcome.value) = 2
  /\ outcome.value[1].file = presence[1]
  /\ outcome.value[2].file = presence[2]

\* C6: a batch call that returns reports exactly one aggregate success message
\* when the combined wrapper-filtered list is empty and none otherwise.
C6_BatchSuccessIffFilteredEmpty ==
  (ReturnedNow /\ mode = "batch") =>
    SuccessCount = (IF Len(outcome.value) = 0 THEN 1 ELSE 0)

\* a batch whose only diagnostics are wrappers: empty result, success reported
C6_Witness ==
  /\ ReturnedNow
  /\ mode = "batch"
  /\ Len(presence) = 2
  /\ Len(RawOf(1)) = 0
  /\ Len(RawOf(2)) > 0
  /\ Len(outcome.value) = 0
  /\ SuccessCount = 1

\* C7: in single-unit mode with emit enabled, no output option and no
\* constructor override of the bundler's output, the bundler is invoked with
\* the unit's own directory as output directory.
C7_SingleDefaultOutputIsUnitFolder ==
  \A n \in TraceIdx :
    ( /\ trace[n].op = "invoke"
      /\ mode = "single"
      /\ options.emit
      /\ "output" \notin DOMAIN OptionsArg
      /\ "output" \notin DOMAIN ctorWebpack )
    => trace[n].config.output.path = getPresenceFolder(trace[n].unit)

\* C8: the installer runs for a unit if and only if package.json exists in the
\* unit's directory when the unit is provisioned; provisioning a unit without
\* package.json never raises.
Provisioned(n) ==
  /\ trace[n].op = "write"
  /\ n < Len(trace) \/ pc \notin {"b_install", "s_install"}

InstallFollows(n) ==
  /\ n < Len(trace)
  /\ trace[n + 1].op = "install"
  /\ trace[n + 1].idx = trace[n].idx
  /\ trace[n + 1].unit = trace[n].unit

C8_InstallerIffManifest ==
  /\ \A n \in TraceIdx :
       trace[n].op = "install" => trace[n].unit \in fsPackageJson
  /\ \A n \in TraceIdx :
       Provisioned(n) => (InstallFollows(n) <=> trace[n].unit \in fsPackageJson)
  /\ \A n \in TraceIdx :
       (Provisioned(n) /\ trace[n].unit \notin fsPackageJson /\ n = Len(trace))
         => ~ThrownNow

\* a batch in which one unit has a manifest and the other has none, both bundled
C8_Witness ==
  /\ mode = "batch"
  /\ \E n, m \in TraceIdx :
       /\ trace[n].op = "invoke" /\ trace[n].unit \in fsPackageJson
       /\ trace[m].op = "invoke" /\ trace[m].unit \notin fsPackageJson
  /\ \E n \in TraceIdx : trace[n].op = "install"

\* C9: every bundler invocation receives an entry object holding the primary
\* entry, and the secondary entry if and only if iframe.ts exists in the
\* unit's directory, whatever overrides the constructor was given.
ExpectedEntryNames(p) ==
  {"presence"} \cup (IF p \in fsIframe THEN {"iframe"} ELSE {})

C9_EntrySetFollowsIframeFile ==
  \A n \in TraceIdx :
    trace[n].op = "invoke" =>
      /\ DOMAIN trace[n].config.entry = ExpectedEntryNames(trace[n].unit)
      /\ Cardinality(DOMAIN trace[n].config.entry)
           = (IF trace[n].unit \in fsIframe THEN 2 ELSE 1)

\* a constructor that overrides entry; one unit with iframe.ts, one without
C9_Witness ==
  /\ "entry" \in DOMAIN ctorWebpack
  /\ \E n, m \in TraceIdx :
       /\ trace[n].op = "invoke" /\ trace[n].unit \in fsIframe
       /\ trace[m].op = "invoke" /\ trace[m].unit \notin fsIframe

\* C10: when the installer exits non-zero for a unit the call throws the
\* failure, the bundler is not invoked for that unit, no success message is
\* reported, the installer is not retried, and no later unit of a batch is
\* written, provisioned or bundled.
FailedInstall(n) ==
  /\ trace[n].op = "install"
  /\ trace[n].exit # 0

C10_InstallerFailureAborts ==
  \A n \in TraceIdx :
    FailedInstall(n) =>
      /\ ThrownNow
      /\ outcome.error = InstallError
      /\ n = Len(trace)
      /\ \A m \in TraceIdx :
           /\ trace[m].idx <= trace[n].idx
           /\ (trace[m].op = "invoke" => trace[m].idx < trace[n].idx)
           /\ (trace[m].op = "install" /\ trace[m].idx = trace[n].idx) => m = n
      /\ SuccessCount = 0

C10_Witness ==
  /\ ThrownNow
  /\ mode = "batch"
  /\ outcome.error = InstallError
  /\ FailedInstall(Len(trace))
  /\ idx < Len(presence)

\* C11: diagnostics never abort a call: a call in which no installer run
\* failed and no bundler callback delivered an invocation error ends by
\* returning a list, whatever the diagnostics, and a batch has then bundled
\* every unit of its list.
NoFailure ==
  \A n \in TraceIdx : ~FailedInstall(n) /\ ~FatalCallback(n)

Bundled(k) ==
  \E n \in TraceIdx : trace[n].op = "invoke" /\ trace[n].idx = k

C11_DiagnosticsNeverAbort ==
  /\ (Done /\ NoFailure) =>
       /\ outcome.kind = "returned"
       /\ mode = "batch" => \A k \in 1..Len(presence) : Bundled(k)
  /\ (~Done /\ NoFailure) => outcome.kind = "none"
  /\ (mode = "batch" /\ NoFailure /\ pc \notin {"b_loop", "b_install", "b_invoke"})
       => \A k \in 1..Len(presence) : k <= idx => Bundled(k)

\* a batch whose first unit produced diagnostics, second unit bundled, returned
C11_Witness ==
  /\ ReturnedNow
  /\ mode = "batch"
  /\ Len(presence) = 2
  /\ Len(RawOf(1)) > 0
  /\ Bundled(2)
  /\ Len(outcome.value) > 0

\* C12: one step at a time: while a bundler run is outstanding nothing else
\* happens (the next side effect is that run's callback); the installation
\* and bundling of unit k+1 start only after unit k's callback has fired; a
\* list position is bundled at most once.
CallbackFired(k) ==
  \E n \in TraceIdx : trace[n].op = "callback" /\ trace[n].idx = k

C12_OneStepAtATime ==
  /\ \A n \in TraceIdx :
       trace[n].op = "invoke" =>
         /\ n = Len(trace) => (pending # undefined /\ pc \in {"b_await", "s_await"})
         /\ n < Len(trace) =>
              /\ trace[n + 1].op = "callback"
              /\ trace[n + 1].idx = trace[n].idx
         /\ \A m \in TraceIdx :
              (trace[m].op = "invoke" /\ trace[m].idx = trace[n].idx) => m = n
  /\ pending # undefined =>
       /\ Len(trace) > 0
       /\ trace[Len(trace)].op = "invoke"
       /\ trace[Len(trace)].config = pending
  /\ \A n \in TraceIdx :
       (trace[n].op \in {"write", "install", "invoke"} /\ trace[n].idx > 1) =>
         \E m \in 1..(n - 1) :
           trace[m].op = "callback" /\ trace[m].idx = trace[n].idx - 1

\* the second unit's bundler run is outstanding, the first one's has completed
C12_Witness ==
  /\ mode = "batch"
  /\ pending # undefined
  /\ idx = 2
  /\ CallbackFired(1)
  /\ ~CallbackFired(2)

\* C13: idempotence of the single-unit compile: a second call on the same
\* unit with identical options, the bundler being deterministic, starts with
\* the unit's tsconfig.json absent, as the first call left it, and returns a
\* list equal to the first call's.
C13_SecondRunIdempotent ==
  prev # NoPrev =>
    /\ presence \notin prev.tsconfig
    /\ trace[1].tsconfig = prev.tsconfig
    /\ ReturnedNow =>
         /\ outcome.value = prev.outcome.value
         /\ Len(outcome.value) = Len(prev.outcome.value)
         /\ fsTsconfig = prev.tsconfig

\* the second call, given the object the first call filled in, has returned
\* the one diagnostic left of the bundler's two
C13_Witness ==
  /\ prev # NoPrev
  /\ ReturnedNow
  /\ "emit" \in DOMAIN trace[1].options
  /\ "emit" \notin DOMAIN prev.trace[1].options
  /\ Len(RawOf(1)) = 2
  /\ Len(outcome.value) = 1

\* C14: in single-unit mode the first thing that happens after the bundler's
\* callback is the deletion of tsconfig.json: the file is absent when the
\* invocation error is thrown (and then no success is reported and nothing is
\* returned) and absent when the call returns, whether or not a tsconfig.json
\* lay in the directory before the call.
C14_SingleDeletesRightAfterCallback ==
  mode = "single" =>
    \A n \in TraceIdx :
      trace[n].op = "callback" =>
        /\ \/ pc = "s_delete" /\ n = Len(trace) /\ outcome = NoOutcome
           \/ /\ pc \in {"s_finish", "done"}
              /\ presence \notin fsTsconfig
              /\ n + 1 = Len(trace)
              /\ trace[n + 1].op = "delete"
              /\ trace[n + 1].unit = presence
        /\ pc \in {"s_delete", "s_finish"} => SuccessCount = 0
        /\ FatalCallback(n) =>
             /\ SuccessCount = 0
             /\ outcome.kind # "returned"
             /\ Done => outcome = Thrown(trace[n].job.error)

\* a stale tsconfig.json lay in the directory; the invocation error is thrown
\* and the file is gone
C14_Witness ==
  /\ mode = "single"
  /\ ThrownNow
  /\ outcome.error = BundlerError
  /\ presence \in trace[1].tsconfig
  /\ presence \notin fsTsconfig

\* the units whose tsconfig.json the call has written so far
Written == {trace[n].unit : n \in {m \in TraceIdx : trace[m].op = "write"}}

\* C15 (as claimed): in batch mode a unit's tsconfig.json is deleted right
\* after that unit's build: once the next unit's file is written the earlier
\* units' files are absent, so at most one file written by the call exists.
C15_BatchDeletesAfterEachUnit ==
  mode = "batch" => Cardinality(Written \cap fsTsconfig) <= 1

\* C15 (amended): in batch mode nothing is deleted during the loop: every
\* tsconfig.json the call has written stays in place until the cleanup pass
\* that follows the last unit's build, and after that pass no unit of the list
\* has one.
C15_BatchCleanupIsDeferred ==
  mode = "batch" =>
    /\ (pc \notin {"b_finish", "done"} \/ ThrownNow) =>
         /\ Written \subseteq fsTsconfig
         /\ \A n \in TraceIdx : trace[n].op # "delete"
    /\ (pc = "b_finish" \/ ReturnedNow) =>
         /\ \A k \in 1..Len(presence) : presence[k] \notin fsTsconfig
         /\ \A n, m \in TraceIdx :
              (trace[n].op = "delete" /\ trace[m].op \in {"write", "install", "invoke", "callback"})
                => m < n

\* the second unit's file has just been written and the first unit's is there
C15_Witness ==
  /\ mode = "batch"
  /\ pc = "b_install"
  /\ idx = 2
  /\ presence[1] # presence[2]
  /\ presence[1] \in fsTsconfig
  /\ presence[2] \in fsTsconfig

\* C16: for every unit the steps come in the order write tsconfig.json, run
\* the installer (if package.json exists), invoke the bundler: the installer
\* runs right after this call's write for that unit, the bundler is invoked
\* right after the write or after the installer's success, and the unit's
\* tsconfig.json, written by this call and not yet deleted, is in place while
\* the bundler runs.
WriteAt(n, k, u) ==
  /\ n >= 1
  /\ trace[n].op = "write"
  /\ trace[n].idx = k
  /\ trace[n].unit = u

C16_WriteInstallInvokeOrder ==
  /\ \A n \in TraceIdx :
       trace[n].op = "install" => WriteAt(n - 1, trace[n].idx, trace[n].unit)
  /\ \A n \in TraceIdx :
       trace[n].op = "invoke" =>
         /\ \/ WriteAt(n - 1, trace[n].idx, trace[n].unit)
            \/ /\ n >= 2
               /\ trace[n - 1].op = "install"
               /\ trace[n - 1].idx = trace[n].idx
               /\ trace[n - 1].exit = 0
               /\ WriteAt(n - 2, trace[n].idx, trace[n].unit)
         /\ \A m \in 1..n : ~(trace[m].op = "delete" /\ trace[m].unit = trace[n].unit)
  /\ pending # undefined => trace[Len(trace)].unit \in fsTsconfig
  /\ pc \in {"b_install", "b_invoke", "s_install", "s_invoke"} =>
       (IF mode = "batch" THEN presence[idx] ELSE presence) \in fsTsconfig

\* a unit with package.json: written, installed, bundler running
C16_Witness ==
  /\ mode = "batch"
  /\ pending # undefined
  /\ idx = 2
  /\ Len(trace) >= 3
  /\ trace[Len(trace) - 1].op = "install"
  /\ trace[Len(trace) - 2].op = "write"

\* C17: a batch without installer failure and without invocation error
\* returns with no tsconfig.json in the directory of any unit of its list, and
\* its cleanup pass never raises: rmSync is only called on a file that exists,
\* once per distinct unit, also for the empty list and for a list naming a
\* unit twice.
DeleteEvents == {n \in TraceIdx : trace[n].op = "delete"}

\* rmSync at trace position n finds its file: written before, not removed since
DeleteFindsFile(n) ==
  /\ \E m \in 1..(n - 1) : trace[m].op = "write" /\ trace[m].unit = trace[n].unit
  /\ \A m \in 1..(n - 1) :
       ~(trace[m].op = "delete" /\ trace[m].unit = trace[n].unit)

C17_BatchCleanupRemovesAllAndNeverRaises ==
  (mode = "batch" /\ Done /\ NoFailure) =>
    /\ outcome.kind = "returned"
    /\ \A k \in 1..Len(presence) : presence[k] \notin fsTsconfig
    /\ \A n \in DeleteEvents : DeleteFindsFile(n)
    /\ Cardinality(DeleteEvents) = Cardinality({presence[k] : k \in 1..Len(presence)})

\* a list naming one unit twice: one deletion, the second attempt skipped
C17_Witness ==
  /\ mode = "batch"
  /\ ReturnedNow
  /\ Len(presence) = 2
  /\ presence[1] = presence[2]
  /\ Cardinality(DeleteEvents) = 1
  /\ fsTsconfig \cap {presence[1]} = {}

\* C18: in batch mode with emit enabled every bundler invocation gets the
\* unit's own source directory as output directory, whatever output option
\* the caller passed (and whatever output the constructor overrode), so two
\* distinct units of a batch never share an output directory.
C18_BatchOutputIsUnitFolder ==
  (mode = "batch" /\ options.emit) =>
    /\ \A n \in TraceIdx :
         trace[n].op = "invoke" =>
           /\ trace[n].config.output.path = getPresenceFolder(trace[n].unit)
           /\ trace[n].config.context = getPresenceFolder(trace[n].unit)
    /\ \A n, m \in TraceIdx :
         (/\ trace[n].op = "invoke"
          /\ trace[m].op = "invoke"
          /\ trace[n].unit # trace[m].unit)
         => trace[n].config.output.path # trace[m].config.output.path

\* the caller passed an output directory; two distinct units were bundled
C18_Witness ==
  /\ mode = "batch"
  /\ options.emit
  /\ "output" \in DOMAIN OptionsArg
  /\ \E n, m \in TraceIdx :
       /\ trace[n].op = "invoke"
       /\ trace[m].op = "invoke"
       /\ trace[n].unit # trace[m].unit

\* C19: frame of the tsconfig.json files: the call writes and deletes only in
\* directories of units of its target; the file of a unit outside the target,
\* and in an aborted batch of a unit that occurs only after the aborting
\* position, is present after the call exactly if it was present before.
TargetUnits ==
  IF mode = "single" THEN {presence}
  ELSE {presence[k] : k \in 1..Len(presence)}

\* the units the call has got to: up to the current (or aborting) position
ReachedUnits ==
  IF mode = "single" THEN {presence}
  ELSE {presence[k] : k \in {j \in 1..Len(presence) : j <= idx}}

C19_ConfigFrame ==
  mode # "none" =>
    /\ \A n \in TraceIdx :
         trace[n].op \in {"write", "delete"} =>
           /\ trace[n].unit \in TargetUnits
           /\ trace[n].unit \in ReachedUnits
    /\ \A u \in Units \ ReachedUnits :
         u \in fsTsconfig <=> u \in trace[1].tsconfig

\* a batch aborted at its first unit; the second unit's stale file is untouched
C19_Witness ==
  /\ mode = "batch"
  /\ ThrownNow
  /\ idx = 1
  /\ Len(presence) = 2
  /\ presence[2] \notin ReachedUnits
  /\ presence[2] \in trace[1].tsconfig
  /\ presence[2] \in fsTsconfig

====
